---- MODULE Spec2Model ----
(***************************************************************************)
(* Model of hurley's performance-test engine: PerfRunner::run (the         *)
(* workload plan, the permit pool, the dispatch loop, the spawned units,   *)
(* the join barrier) and MetricsCollector.                                 *)
(*                                                                         *)
(* Strings are sequences of one-character strings, so that prefix tests,   *)
(* trimming and upper-casing are computed and not assumed.                 *)
(***************************************************************************)
EXTENDS Integers, Sequences, FiniteSets, Bags, TLC

(* ------------------------------ bounds --------------------------------- *)
MaxC == 2
MaxN == 3
MaxL == 2
MaxCalls == 4
MaxLines == 3
Preload == 20

(* --------------------------- program constants ------------------------- *)
HistogramHigh == 60000000

(* ------------------------------ strings -------------------------------- *)
HttpPrefix == <<"h","t","t","p",":","/","/">>
HttpsPrefix == <<"h","t","t","p","s",":","/","/">>

StartsWith(s, p) == Len(s) >= Len(p) /\ SubSeq(s, 1, Len(p)) = p

RECURSIVE TrimEndMatches(_, _)
TrimEndMatches(s, c) ==
    IF Len(s) > 0 /\ s[Len(s)] = c
    THEN TrimEndMatches(SubSeq(s, 1, Len(s) - 1), c)
    ELSE s

LowerToUpper ==
    [ch \in {"g","e","t","p","o","s"} |->
        CASE ch = "g" -> "G" [] ch = "e" -> "E" [] ch = "t" -> "T"
          [] ch = "p" -> "P" [] ch = "o" -> "O" [] ch = "s" -> "S"]

ToUppercase(s) ==
    [k \in 1..Len(s) |-> IF s[k] \in DOMAIN LowerToUpper THEN LowerToUpper[s[k]] ELSE s[k]]

(* http::Method::from_bytes: a non-empty sequence of token characters;     *)
(* a space is not a token character.                                       *)
TokenChars == {"G","E","T","P","O","S","g","e","t","p","o","s"}

ParseMethodFails(s) == Len(s) = 0 \/ \E k \in 1..Len(s) : s[k] \notin TokenChars

(* ------------------------------ inputs --------------------------------- *)
None == [some |-> FALSE]
Some(v) == [some |-> TRUE, val |-> v]

(* serde_json::Value, as its kind and the compact text of what it holds;  *)
(* Value::to_string() writes a string between double quotes.               *)
JsonString(t) == [kind |-> "String", text |-> t]
JsonObject(t) == [kind |-> "Object", text |-> t]

to_string(v) == IF v.kind = "String" THEN "\"" \o v.text \o "\"" ELSE v.text

get_body_string(entry) ==
    IF entry.body.some THEN Some(to_string(entry.body.val)) ELSE None

EntryGet ==
    [method |-> <<"G","E","T">>, path |-> None, body |-> None, headers |-> None]
EntryPost ==
    [method |-> <<"p","o","s","t">>, path |-> Some(<<"/","a">>),
     body |-> Some(JsonObject("{\"k\":1}")), headers |-> Some([h \in {"X-A"} |-> "entry"])]
EntryBad ==
    [method |-> <<"G"," ","T">>, path |-> Some(<<"h","t","t","p",":","/","/","y">>),
     body |-> None, headers |-> None]

Entries == {EntryGet, EntryPost, EntryBad}

SeqsUpTo(S, n) == UNION {[1..k -> S] : k \in 0..n}

BaseUrl == <<"h","t","t","p",":","/","/","x","/">>

BaseRequest ==
    [method |-> <<"P","U","T">>, url |-> BaseUrl,
     headers |-> [h \in {"X-A", "X-B"} |-> "base"],
     body |-> Some("base-body"), timeout |-> 30, follow_redirects |-> FALSE]

(* Unsigned integers wider than the checker's are little-endian sequences  *)
(* of bytes: a u64 has 8 of them, a u128 has 16.                           *)
U64(b1, b2, b3, b4, b5, b6, b7, b8) == <<b1, b2, b3, b4, b5, b6, b7, b8>>

Zeros == <<0, 0, 0, 0, 0, 0, 0, 0, 0, 0, 0, 0, 0, 0, 0, 0>>

Widen(x, n) == x \o SubSeq(Zeros, 1, n - Len(x))

(* The bytes from the i-th on of x * k + carry, on Len(x) bytes, for a     *)
(* small k and carry. The product of a byte is bound once, as a value.     *)
RECURSIVE MulAdd(_, _, _, _)
MulAdd(x, k, carry, i) ==
    IF i > Len(x) THEN <<>>
    ELSE CHOOSE r \in {<<t % 256>> \o MulAdd(x, k, t \div 256, i + 1) :
                          t \in {x[i] * k + carry}} : TRUE

(* The value of the low four bytes, when it is below 2^31.                 *)
LowInt(x) == x[1] + 256 * x[2] + 65536 * x[3] + 16777216 * x[4]

(* x > h, for h below 2^31.                                                *)
Exceeds(x, h) ==
    \/ \E i \in 5..Len(x) : x[i] # 0
    \/ x[4] >= 128
    \/ LowInt(x) > h

(* Duration: u64 seconds and nanoseconds below 10^9.                       *)
Duration10ms == [secs |-> U64(0, 0, 0, 0, 0, 0, 0, 0), nanos |-> 10000500]

Durations == {Duration10ms}

(* Durations handed to the collector directly: below one microsecond, ten  *)
(* milliseconds, above the histogram's maximum, and 18_446_744_073_710 s,  *)
(* whose microseconds (2^64 + 448_384) do not fit in 64 bits.              *)
Duration500ns == [secs |-> U64(0, 0, 0, 0, 0, 0, 0, 0), nanos |-> 500]
Duration70s == [secs |-> U64(70, 0, 0, 0, 0, 0, 0, 0), nanos |-> 0]
DurationOver64 == [secs |-> U64(238, 181, 160, 247, 198, 16, 0, 0), nanos |-> 0]

CallDurations == {Duration500ns, Duration10ms, Duration70s, DurationOver64}

(* Instant::now() is monotonic: a later reading is the earlier one or more. *)
Instants(t) == {t, t + 1}

Statuses == {200, 404}
ExecResults ==
    {[tag |-> "Ok", status |-> s] : s \in Statuses}
      \cup {[tag |-> "Err", status |-> 0]}

(* ------------------------------- state --------------------------------- *)
VARIABLES
    concurrency,        \* PerfRunner.concurrency
    total_requests,     \* PerfRunner.total_requests
    dataset,            \* Dataset.entries
    requests_to_make,   \* the planned sequence
    pc,                 \* position of run()
    result,             \* what run() returned
    handles,            \* JoinHandles pushed so far (unit ids, in push order)
    joined,             \* number of handles already awaited
    available,          \* free permits of the semaphore
    loop_permit,        \* run() holds the permit of the current iteration
    unit,               \* spawned tasks
    collector,          \* MetricsCollector
    lock,               \* holder of the collector's Mutex
    pb,                 \* progress bar position
    now,                \* monotonic clock (Instant::now), in milliseconds
    call,               \* last direct call of a MetricsCollector method
    base_url,           \* PerfRunner.base_url
    base_request,       \* PerfRunner.base_request
    content             \* the text handed to Dataset::from_json

vars == <<concurrency, total_requests, dataset, requests_to_make, pc, result,
          handles, joined, available, loop_permit, unit, collector, lock, pb, now,
          call, base_url, base_request, content>>

Units == 1..(MaxN + 1)

Free == <<"free", 0>>
ByRun == <<"run", 0>>
ByUnit(u) == <<"unit", u>>

NoCall == [n |-> 0, op |-> "none", arg |-> None]

NoUnit == [st |-> "none", request |-> None, result |-> None, duration |-> None]

(* ------------------------- MetricsCollector ---------------------------- *)
MetricsCollectorNew ==
    [histogram |-> EmptyBag, successful |-> 0, failed |-> 0,
     start_time |-> None, end_time |-> None]

start(c, t) == [c EXCEPT !.start_time = Some(t)]

finish(c, t) == [c EXCEPT !.end_time = Some(t)]

(* Duration::as_micros(): u128, secs * 1_000_000 + nanos / 1_000.           *)
as_micros(d) == MulAdd(Widen(d.secs, 16), 1000000, d.nanos \div 1000, 1)

(* `as u64`: the low 64 bits.                                              *)
as_u64(x) == SubSeq(x, 1, 8)

(* u64::min(micros, high), high below 2^31.                                *)
min_u64(x, h) == IF Exceeds(x, h) THEN h ELSE LowInt(x)

(* Histogram::high().                                                      *)
high(h) == HistogramHigh

(* Histogram::record: a value above the highest trackable one is refused   *)
(* (the Err is discarded by `let _ =`), any other is counted.              *)
record(h, x) == IF Exceeds(x, HistogramHigh) THEN h ELSE h (+) SetToBag({LowInt(x)})

ToU64(v) == Widen(<<v % 256, (v \div 256) % 256, (v \div 65536) % 256, v \div 16777216>>, 8)

Min(a, b) == IF a <= b THEN a ELSE b

(* record_success as it would be if it counted a failure.                  *)
record_success_counts_failed(c, d) ==
    CHOOSE r \in {[c EXCEPT !.histogram = record(@, ToU64(micros)),
                            !.failed = @ + 1] :
                    micros \in {min_u64(as_u64(as_micros(d)), high(c.histogram))}} : TRUE

(* metrics.rs 84-90; micros is bound once, as a value.                     *)
record_success(c, d) ==
    CHOOSE r \in {[c EXCEPT !.histogram = record(@, ToU64(micros)),
                            !.successful = @ + 1] :
                    micros \in {min_u64(as_u64(as_micros(d)), high(c.histogram))}} : TRUE

(* record_failure as it would be if it counted the outcome twice.          *)
record_failure_twice(c, d) ==
    CHOOSE r \in {[c EXCEPT !.histogram = record(@, ToU64(micros)),
                            !.failed = @ + 2] :
                    micros \in {min_u64(as_u64(as_micros(d)), high(c.histogram))}} : TRUE

(* record_failure as it would be without the clamp to high().              *)
record_failure_unclamped(c, d) ==
    CHOOSE r \in {[c EXCEPT !.histogram = record(@, micros),
                            !.failed = @ + 1] :
                    micros \in {as_u64(as_micros(d))}} : TRUE

(* metrics.rs 93-98.                                                      *)
record_failure(c, d) ==
    CHOOSE r \in {[c EXCEPT !.histogram = record(@, ToU64(micros)),
                            !.failed = @ + 1] :
                    micros \in {min_u64(as_u64(as_micros(d)), high(c.histogram))}} : TRUE

(* ---- hdrhistogram, 3 significant figures, lowest discernible value 1 --- *)
(* Values below 2048 are kept exactly; each doubling above halves the      *)
(* resolution.                                                             *)
RECURSIVE size_of_equivalent_range(_)
size_of_equivalent_range(v) ==
    IF v < 2048 THEN 1 ELSE 2 * size_of_equivalent_range(v \div 2)

lowest_equivalent(v) == v - (v % size_of_equivalent_range(v))

highest_equivalent(v) == lowest_equivalent(v) + size_of_equivalent_range(v) - 1

SetMin(S) == CHOOSE v \in S : \A w \in S : v <= w

SetMax(S) == CHOOSE v \in S : \A w \in S : w <= v

(* Histogram::min(): 0 when empty or when 0 was recorded.                  *)
histogram_min(h) ==
    IF BagToSet(h) = {} \/ 0 \in BagToSet(h) THEN 0
    ELSE lowest_equivalent(SetMin(BagToSet(h)))

(* Histogram::max(): 0 when empty.                                         *)
histogram_max(h) ==
    IF BagToSet(h) = {} THEN 0 ELSE highest_equivalent(SetMax(BagToSet(h)))

(* Samples counted in the buckets up to the one of v.                      *)
CountUpTo(h, v) ==
    BagCardinality([w \in {x \in BagToSet(h) : x <= highest_equivalent(v)} |-> h[w]])

(* Histogram::value_at_percentile: the first bucket at which the running   *)
(* count reaches ceil(p% of the samples), at least 1; 0 when empty.        *)
value_at_percentile(h, p) ==
    LET total == BagCardinality(h)
        want == (p * total + 99) \div 100
        count_at == IF want = 0 THEN 1 ELSE want
        reach == {v \in BagToSet(h) : CountUpTo(h, v) >= count_at}
    IN IF reach = {} THEN 0 ELSE highest_equivalent(SetMin(reach))

(* ---- f64 values, kept as exact fractions (no rounding is modelled) ----- *)
Rat(n, d) == [num |-> n, den |-> d]

RatMulInt(a, k) == Rat(a.num * k, a.den)

RatDiv(a, b) == Rat(a.num * b.den, a.den * b.num)

RatEq(a, b) == IF a.den = b.den THEN a.num = b.num ELSE a.num * b.den = b.num * a.den

RatLE(a, b) == IF a.den = b.den THEN a.num <= b.num ELSE a.num * b.den <= b.num * a.den

(* Instant::duration_since: zero when `earlier` is the later one.          *)
duration_since(later, earlier) == IF later >= earlier THEN later - earlier ELSE 0

(* Duration::as_secs_f64 of a duration in milliseconds.                    *)
as_secs_f64(ms) == Rat(ms, 1000)

total_duration(c) ==
    IF c.start_time.some /\ c.end_time.some
    THEN duration_since(c.end_time.val, c.start_time.val)
    ELSE 0

(* requests_per_second as it would be if it divided by the milliseconds.   *)
requests_per_second_per_ms(c) ==
    IF as_secs_f64(total_duration(c)).num > 0
    THEN RatDiv(Rat(c.successful + c.failed, 1), Rat(total_duration(c), 1))
    ELSE Rat(0, 1)

requests_per_second(c) ==
    IF as_secs_f64(total_duration(c)).num > 0
    THEN RatDiv(Rat(c.successful + c.failed, 1), as_secs_f64(total_duration(c)))
    ELSE Rat(0, 1)

(* error_rate as it would be if it took the successful count.              *)
error_rate_of_successful(c) ==
    IF c.successful + c.failed > 0
    THEN RatMulInt(RatDiv(Rat(c.successful, 1), Rat(c.successful + c.failed, 1)), 100)
    ELSE Rat(0, 1)

error_rate(c) ==
    IF c.successful + c.failed > 0
    THEN RatMulInt(RatDiv(Rat(c.failed, 1), Rat(c.successful + c.failed, 1)), 100)
    ELSE Rat(0, 1)

to_ms(micros) == Rat(micros, 1000)

(* compute_metrics as it would be with the 50.0 and 95.0 arguments swapped.*)
compute_metrics_p50_p95_swapped(c) ==
    [total_requests |-> c.successful + c.failed,
     successful_requests |-> c.successful,
     failed_requests |-> c.failed,
     total_duration_ms |-> RatMulInt(as_secs_f64(total_duration(c)), 1000),
     latency_min_ms |-> to_ms(histogram_min(c.histogram)),
     latency_max_ms |-> to_ms(histogram_max(c.histogram)),
     latency_p50_ms |-> to_ms(value_at_percentile(c.histogram, 95)),
     latency_p95_ms |-> to_ms(value_at_percentile(c.histogram, 50)),
     latency_p99_ms |-> to_ms(value_at_percentile(c.histogram, 99)),
     requests_per_second |-> requests_per_second(c),
     error_rate_percent |-> error_rate(c)]

(* latency_avg_ms (the histogram's mean) is not modelled.                  *)
compute_metrics(c) ==
    [total_requests |-> c.successful + c.failed,
     successful_requests |-> c.successful,
     failed_requests |-> c.failed,
     total_duration_ms |-> RatMulInt(as_secs_f64(total_duration(c)), 1000),
     latency_min_ms |-> to_ms(histogram_min(c.histogram)),
     latency_max_ms |-> to_ms(histogram_max(c.histogram)),
     latency_p50_ms |-> to_ms(value_at_percentile(c.histogram, 50)),
     latency_p95_ms |-> to_ms(value_at_percentile(c.histogram, 95)),
     latency_p99_ms |-> to_ms(value_at_percentile(c.histogram, 99)),
     requests_per_second |-> requests_per_second(c),
     error_rate_percent |-> error_rate(c)]

(* ------------------------------ planner -------------------------------- *)
(* iter().cycle().take(n): restart from the first entry when the iterator  *)
(* is exhausted; cycling an empty iterator yields nothing.                 *)
(* CycleTake as it would be without cycle(): it stops at the last entry.   *)
RECURSIVE CycleTakeNoWrap(_, _, _, _)
CycleTakeNoWrap(entries, pos, n, acc) ==
    IF n = 0 \/ pos > Len(entries) THEN acc
    ELSE CycleTakeNoWrap(entries, pos + 1, n - 1, Append(acc, entries[pos]))

RECURSIVE CycleTake(_, _, _, _)
CycleTake(entries, pos, n, acc) ==
    IF n = 0 \/ Len(entries) = 0 THEN acc
    ELSE IF pos > Len(entries) THEN CycleTake(entries, 1, n, acc)
    ELSE CycleTake(entries, pos + 1, n - 1, Append(acc, entries[pos]))

Take(entries, n) == SubSeq(entries, 1, Min(n, Len(entries)))

Plan(entries, n) ==
    IF Len(entries) >= n THEN Take(entries, n) ELSE CycleTake(entries, 1, n, <<>>)

(* ---------------------------- build_request ---------------------------- *)
(* ResolveUrl as it would be if the base URL were not trimmed.             *)
ResolveUrlNoTrim(entry) ==
    IF entry.path.some
    THEN IF StartsWith(entry.path.val, HttpPrefix) \/ StartsWith(entry.path.val, HttpsPrefix)
         THEN entry.path.val
         ELSE base_url \o entry.path.val
    ELSE base_url

ResolveUrl(entry) ==
    IF entry.path.some
    THEN IF StartsWith(entry.path.val, HttpPrefix) \/ StartsWith(entry.path.val, HttpsPrefix)
         THEN entry.path.val
         ELSE TrimEndMatches(base_url, "/") \o entry.path.val
    ELSE base_url

(* MergeHeaders as it would be if the base headers were inserted last.     *)
MergeHeadersBaseLast(base, over) ==
    [h \in (DOMAIN base) \cup (DOMAIN over) |->
        IF h \in DOMAIN base THEN base[h] ELSE over[h]]

MergeHeaders(base, over) ==
    [h \in (DOMAIN base) \cup (DOMAIN over) |->
        IF h \in DOMAIN over THEN over[h] ELSE base[h]]

NoHeaders == [h \in {} |-> ""]

(* build_request as it would be if the method came from the base request. *)
build_request_base_method(entry) ==
    IF ParseMethodFails(ToUppercase(entry.method))
    THEN [ok |-> FALSE, err |-> "InvalidMethod"]
    ELSE [ok |-> TRUE,
          request |->
            [method |-> base_request.method,
             url |-> ResolveUrl(entry),
             timeout |-> base_request.timeout,
             follow_redirects |-> base_request.follow_redirects,
             headers |-> MergeHeaders(base_request.headers,
                            IF entry.headers.some THEN entry.headers.val ELSE NoHeaders),
             body |-> IF get_body_string(entry).some THEN get_body_string(entry)
                      ELSE base_request.body]]

build_request(entry) ==
    IF ParseMethodFails(ToUppercase(entry.method))
    THEN [ok |-> FALSE, err |-> "InvalidMethod"]
    ELSE [ok |-> TRUE,
          request |->
            [method |-> ToUppercase(entry.method),
             url |-> ResolveUrl(entry),
             timeout |-> base_request.timeout,
             follow_redirects |-> base_request.follow_redirects,
             headers |-> MergeHeaders(base_request.headers,
                            IF entry.headers.some THEN entry.headers.val ELSE NoHeaders),
             body |-> IF get_body_string(entry).some THEN get_body_string(entry)
                      ELSE base_request.body]]

(* ------------------------------- Init ---------------------------------- *)
Init ==
    /\ concurrency \in 0..MaxC
    /\ total_requests \in 0..MaxN
    /\ dataset \in SeqsUpTo(Entries, MaxL)
    /\ requests_to_make = <<>>
    /\ pc = "plan"
    /\ result = [tag |-> "None"]
    /\ handles = <<>>
    /\ joined = 0
    /\ available = 0
    /\ loop_permit = FALSE
    /\ unit = [u \in Units |-> NoUnit]
    /\ collector = MetricsCollectorNew
    /\ lock = Free
    /\ pb = 0
    /\ now = 0
    /\ call = NoCall
    /\ base_url = BaseUrl
    /\ base_request = BaseRequest
    /\ content = <<>>

(* ------------------------------ run() ---------------------------------- *)
(* runner.rs 83-93: build the planned sequence.                            *)
PlanRequests ==
    /\ pc = "plan"
    /\ requests_to_make' = Plan(dataset, total_requests)
    /\ pc' = "lock_start"
    /\ UNCHANGED <<base_url, base_request, content, call, concurrency, total_requests, dataset, result, handles, joined,
                   available, loop_permit, unit, collector, lock, pb, now>>

(* collector.lock().await by run(), before start / finish / compute.       *)
RunLock ==
    /\ pc \in {"lock_start", "lock_finish", "lock_compute"}
    /\ lock = Free
    /\ lock' = ByRun
    /\ pc' = CASE pc = "lock_start" -> "start"
               [] pc = "lock_finish" -> "finish"
               [] pc = "lock_compute" -> "compute"
    /\ UNCHANGED <<base_url, base_request, content, call, concurrency, total_requests, dataset, requests_to_make, result,
                   handles, joined, available, loop_permit, unit, collector, pb, now>>

(* RunStart as it would be if the semaphore never had fewer than 1 permit. *)
RunStartAtLeastOnePermit ==
    /\ pc = "start"
    /\ lock = ByRun
    /\ \E t \in {now} :
          /\ now' = t
          /\ collector' = start(collector, t)
    /\ lock' = Free
    /\ available' = IF concurrency = 0 THEN 1 ELSE concurrency
    /\ handles' = <<>>
    /\ pc' = "loop"
    /\ UNCHANGED <<base_url, base_request, content, call, concurrency, total_requests, dataset, requests_to_make, result,
                   joined, loop_permit, unit, pb>>

(* runner.rs 96-104: c.start(), guard dropped, semaphore and handles made. *)
(* An Instant is opaque and only differences of readings are observable:   *)
(* the first reading of run() is taken as the origin of the clock.         *)
RunStart ==
    /\ pc = "start"
    /\ lock = ByRun
    /\ \E t \in {now} :
          /\ now' = t
          /\ collector' = start(collector, t)
    /\ lock' = Free
    /\ available' = concurrency
    /\ handles' = <<>>
    /\ pc' = "loop"
    /\ UNCHANGED <<base_url, base_request, content, call, concurrency, total_requests, dataset, requests_to_make, result,
                   joined, loop_permit, unit, pb>>

(* Acquire as it would be if the loop did not wait for a free permit.      *)
AcquireNoWait ==
    /\ pc = "loop"
    /\ Len(handles) < Len(requests_to_make)
    /\ available' = available - 1
    /\ loop_permit' = TRUE
    /\ pc' = "build"
    /\ UNCHANGED <<base_url, base_request, content, call, concurrency, total_requests, dataset, requests_to_make, result,
                   handles, joined, unit, collector, lock, pb, now>>

(* runner.rs 107: semaphore.acquire_owned().await for the next entry.      *)
Acquire ==
    /\ pc = "loop"
    /\ Len(handles) < Len(requests_to_make)
    /\ available > 0
    /\ available' = available - 1
    /\ loop_permit' = TRUE
    /\ pc' = "build"
    /\ UNCHANGED <<base_url, base_request, content, call, concurrency, total_requests, dataset, requests_to_make, result,
                   handles, joined, unit, collector, lock, pb, now>>

(* Spawn as it would be if the loop walked the plan from its last entry.   *)
SpawnReversed ==
    /\ pc = "build"
    /\ LET u == Len(handles) + 1
           built == build_request(requests_to_make[Len(requests_to_make) - Len(handles)])
       IN /\ built.ok
          /\ unit' = [unit EXCEPT ![u] =
                        [st |-> "exec", request |-> Some(built.request),
                         result |-> None, duration |-> None]]
          /\ handles' = Append(handles, u)
    /\ loop_permit' = FALSE
    /\ pc' = "loop"
    /\ UNCHANGED <<base_url, base_request, content, call, concurrency, total_requests, dataset, requests_to_make, result,
                   joined, available, collector, lock, pb, now>>

(* Spawn as it would be if the loop awaited the unit it launches.          *)
SpawnAwaited ==
    /\ pc = "build"
    /\ LET u == Len(handles) + 1
           built == build_request(requests_to_make[u])
       IN /\ built.ok
          /\ unit' = [unit EXCEPT ![u] =
                        [st |-> "finished", request |-> Some(built.request),
                         result |-> None, duration |-> None]]
          /\ handles' = Append(handles, u)
          /\ collector' = record_success(collector, Duration10ms)
    /\ loop_permit' = FALSE
    /\ available' = available + 1
    /\ pb' = pb + 1
    /\ pc' = "loop"
    /\ UNCHANGED <<base_url, base_request, content, call, concurrency, total_requests,
                   dataset, requests_to_make, result, joined, lock, now>>

(* runner.rs 110-138: the request is built and the unit is spawned.        *)
Spawn ==
    /\ pc = "build"
    /\ LET u == Len(handles) + 1
           built == build_request(requests_to_make[u])
       IN /\ built.ok
          /\ unit' = [unit EXCEPT ![u] =
                        [st |-> "exec", request |-> Some(built.request),
                         result |-> None, duration |-> None]]
          /\ handles' = Append(handles, u)
    /\ loop_permit' = FALSE
    /\ pc' = "loop"
    /\ UNCHANGED <<base_url, base_request, content, call, concurrency, total_requests, dataset, requests_to_make, result,
                   joined, available, collector, lock, pb, now>>

(* BuildError as it would be if the permit of the iteration were leaked.   *)
BuildErrorLeaksPermit ==
    /\ pc = "build"
    /\ LET built == build_request(requests_to_make[Len(handles) + 1])
       IN /\ ~built.ok
          /\ result' = [tag |-> "Err", err |-> built.err]
    /\ loop_permit' = FALSE
    /\ available' = available
    /\ pc' = "returned"
    /\ UNCHANGED <<base_url, base_request, content, call, concurrency, total_requests, dataset, requests_to_make,
                   handles, joined, unit, collector, lock, pb, now>>

(* runner.rs 110: build_request(&entry)? returns the error from run(); the *)
(* permit of this iteration is dropped with the frame.                     *)
BuildError ==
    /\ pc = "build"
    /\ LET built == build_request(requests_to_make[Len(handles) + 1])
       IN /\ ~built.ok
          /\ result' = [tag |-> "Err", err |-> built.err]
    /\ loop_permit' = FALSE
    /\ available' = available + 1
    /\ pc' = "returned"
    /\ UNCHANGED <<base_url, base_request, content, call, concurrency, total_requests, dataset, requests_to_make,
                   handles, joined, unit, collector, lock, pb, now>>

(* runner.rs 106/142: the dispatch loop is exhausted.                      *)
LoopDone ==
    /\ pc = "loop"
    /\ Len(handles) = Len(requests_to_make)
    /\ pc' = "join"
    /\ UNCHANGED <<base_url, base_request, content, call, concurrency, total_requests, dataset, requests_to_make, result,
                   handles, joined, available, loop_permit, unit, collector, lock,
                   pb, now>>

(* Join as it would be if a handle were dropped instead of awaited.        *)
JoinNoWait ==
    /\ pc = "join"
    /\ joined < Len(handles)
    /\ joined' = joined + 1
    /\ UNCHANGED <<base_url, base_request, content, call, concurrency, total_requests, dataset, requests_to_make, pc, result,
                   handles, available, loop_permit, unit, collector, lock, pb, now>>

(* runner.rs 142-144: let _ = handle.await, in push order.                 *)
Join ==
    /\ pc = "join"
    /\ joined < Len(handles)
    /\ unit[handles[joined + 1]].st \in {"finished", "aborted"}
    /\ joined' = joined + 1
    /\ UNCHANGED <<base_url, base_request, content, call, concurrency, total_requests, dataset, requests_to_make, pc, result,
                   handles, available, loop_permit, unit, collector, lock, pb, now>>

JoinDone ==
    /\ pc = "join"
    /\ joined = Len(handles)
    /\ pc' = "lock_finish"
    /\ UNCHANGED <<base_url, base_request, content, call, concurrency, total_requests, dataset, requests_to_make, result,
                   handles, joined, available, loop_permit, unit, collector, lock,
                   pb, now>>

(* RunFinish as it would be if run() went back to take the lock and call   *)
(* finish() again.                                                         *)
RunFinishRepeats ==
    /\ pc = "finish"
    /\ lock = ByRun
    /\ \E t \in Instants(now) :
          /\ now' = t
          /\ collector' = finish(collector, t)
    /\ lock' = Free
    /\ pc' = IF collector.end_time.some THEN "lock_compute" ELSE "lock_finish"
    /\ UNCHANGED <<base_url, base_request, content, call, concurrency, total_requests, dataset, requests_to_make, result,
                   handles, joined, available, loop_permit, unit, pb>>

(* runner.rs 147-152: c.finish(), guard dropped.                           *)
RunFinish ==
    /\ pc = "finish"
    /\ lock = ByRun
    /\ \E t \in Instants(now) :
          /\ now' = t
          /\ collector' = finish(collector, t)
    /\ lock' = Free
    /\ pc' = "lock_compute"
    /\ UNCHANGED <<base_url, base_request, content, call, concurrency, total_requests, dataset, requests_to_make, result,
                   handles, joined, available, loop_permit, unit, pb>>

(* runner.rs 154-155: compute_metrics() under the lock, Ok(metrics).       *)
RunCompute ==
    /\ pc = "compute"
    /\ lock = ByRun
    /\ result' = [tag |-> "Ok", metrics |-> compute_metrics(collector)]
    /\ lock' = Free
    /\ pc' = "returned"
    /\ UNCHANGED <<base_url, base_request, content, call, concurrency, total_requests, dataset, requests_to_make,
                   handles, joined, available, loop_permit, unit, collector, pb, now>>

(* response.rs 44-46: StatusCode::is_success, 200 <= status < 300.         *)
is_success(response) == response.status >= 200 /\ response.status < 300

(* --------------------------- spawned unit ------------------------------ *)
(* ExecuteDone as it would be if the permit were dropped before recording. *)
ExecuteDoneDropsPermit(u) ==
    /\ unit[u].st = "exec"
    /\ \E r \in ExecResults, d \in Durations :
          unit' = [unit EXCEPT ![u].st = "lock",
                               ![u].result = Some(r),
                               ![u].duration = Some(d)]
    /\ available' = available + 1
    /\ UNCHANGED <<base_url, base_request, content, call, concurrency, total_requests,
                   dataset, requests_to_make, pc, result, handles, joined, loop_permit,
                   collector, lock, pb, now>>

(* runner.rs 114-117: client.execute(&request).await ends, elapsed taken.  *)
ExecuteDone(u) ==
    /\ unit[u].st = "exec"
    /\ \E r \in ExecResults, d \in Durations :
          unit' = [unit EXCEPT ![u].st = "lock",
                               ![u].result = Some(r),
                               ![u].duration = Some(d)]
    /\ UNCHANGED <<base_url, base_request, content, call, concurrency, total_requests, dataset, requests_to_make, pc, result,
                   handles, joined, available, loop_permit, collector, lock, pb, now>>

(* The task panics inside execute: tokio ends the task with a JoinError    *)
(* (discarded at runner.rs 143); unwinding drops the permit it owns.       *)
UnitAbort(u) ==
    /\ unit[u].st = "exec"
    /\ unit' = [unit EXCEPT ![u].st = "aborted"]
    /\ available' = available + 1
    /\ UNCHANGED <<base_url, base_request, content, call, concurrency, total_requests, dataset, requests_to_make, pc, result,
                   handles, joined, loop_permit, collector, lock, pb, now>>

(* UnitLock as it would be if the unit did not wait for the mutex.         *)
UnitLockNoWait(u) ==
    /\ unit[u].st = "lock"
    /\ lock' = ByUnit(u)
    /\ unit' = [unit EXCEPT ![u].st = "record"]
    /\ UNCHANGED <<base_url, base_request, content, call, concurrency, total_requests, dataset, requests_to_make, pc, result,
                   handles, joined, available, loop_permit, collector, pb, now>>

(* runner.rs 120: collector.lock().await.                                  *)
UnitLock(u) ==
    /\ unit[u].st = "lock"
    /\ lock = Free
    /\ lock' = ByUnit(u)
    /\ unit' = [unit EXCEPT ![u].st = "record"]
    /\ UNCHANGED <<base_url, base_request, content, call, concurrency, total_requests, dataset, requests_to_make, pc, result,
                   handles, joined, available, loop_permit, collector, pb, now>>

(* UnitRecord as it would be if the Err arm recorded nothing.               *)
UnitRecordErrLost(u) ==
    /\ unit[u].st = "record"
    /\ lock = ByUnit(u)
    /\ LET r == unit[u].result.val
           d == unit[u].duration.val
       IN collector' =
            IF r.tag = "Ok" /\ is_success(r) THEN record_success(collector, d)
            ELSE IF r.tag = "Ok" THEN record_failure(collector, d)
            ELSE collector
    /\ lock' = Free
    /\ unit' = [unit EXCEPT ![u].st = "inc", ![u].result = None, ![u].duration = None]
    /\ UNCHANGED <<base_url, base_request, content, call, concurrency, total_requests, dataset, requests_to_make, pc, result,
                   handles, joined, available, loop_permit, pb, now>>

(* UnitRecord as it would be if the first arm had no is_success() guard.   *)
UnitRecordOkIsSuccess(u) ==
    /\ unit[u].st = "record"
    /\ lock = ByUnit(u)
    /\ LET r == unit[u].result.val
           d == unit[u].duration.val
       IN collector' =
            IF r.tag = "Ok" THEN record_success(collector, d)
            ELSE record_failure(collector, d)
    /\ lock' = Free
    /\ unit' = [unit EXCEPT ![u].st = "inc", ![u].result = None, ![u].duration = None]
    /\ UNCHANGED <<base_url, base_request, content, call, concurrency, total_requests, dataset, requests_to_make, pc, result,
                   handles, joined, available, loop_permit, pb, now>>

(* runner.rs 121-132: the outcome match, then the guard is dropped.        *)
UnitRecord(u) ==
    /\ unit[u].st = "record"
    /\ lock = ByUnit(u)
    /\ LET r == unit[u].result.val
           d == unit[u].duration.val
       IN collector' =
            IF r.tag = "Ok" /\ is_success(r) THEN record_success(collector, d)
            ELSE IF r.tag = "Ok" THEN record_failure(collector, d)
            ELSE record_failure(collector, d)
    /\ lock' = Free
    /\ unit' = [unit EXCEPT ![u].st = "inc", ![u].result = None, ![u].duration = None]
    /\ UNCHANGED <<base_url, base_request, content, call, concurrency, total_requests, dataset, requests_to_make, pc, result,
                   handles, joined, available, loop_permit, pb, now>>

(* runner.rs 134: pb.inc(1).                                               *)
UnitInc(u) ==
    /\ unit[u].st = "inc"
    /\ pb' = pb + 1
    /\ unit' = [unit EXCEPT ![u].st = "drop"]
    /\ UNCHANGED <<base_url, base_request, content, call, concurrency, total_requests, dataset, requests_to_make, pc, result,
                   handles, joined, available, loop_permit, collector, lock, now>>

(* UnitDrop as it would be if the task ended with its permit leaked.       *)
UnitDropLeaksPermit(u) ==
    /\ unit[u].st = "drop"
    /\ unit' = [unit EXCEPT ![u].st = "finished"]
    /\ UNCHANGED <<base_url, base_request, content, call, concurrency, total_requests,
                   dataset, requests_to_make, pc, result, handles, joined, available,
                   loop_permit, collector, lock, pb, now>>

(* runner.rs 135: drop(permit); the task ends.                             *)
UnitDrop(u) ==
    /\ unit[u].st = "drop"
    /\ available' = available + 1
    /\ unit' = [unit EXCEPT ![u].st = "finished"]
    /\ UNCHANGED <<base_url, base_request, content, call, concurrency, total_requests, dataset, requests_to_make, pc, result,
                   handles, joined, loop_permit, collector, lock, pb, now>>

Next ==
    \/ PlanRequests
    \/ RunLock
    \/ RunStart
    \/ Acquire
    \/ Spawn
    \/ BuildError
    \/ LoopDone
    \/ Join
    \/ JoinDone
    \/ RunFinish
    \/ RunCompute
    \/ \E u \in Units : ExecuteDone(u)
    \/ \E u \in Units : UnitAbort(u)
    \/ \E u \in Units : UnitLock(u)
    \/ \E u \in Units : UnitRecord(u)
    \/ \E u \in Units : UnitInc(u)
    \/ \E u \in Units : UnitDrop(u)

Spec == Init /\ [][Next]_vars

(* run() and every spawned task are tokio tasks: the runtime polls a task  *)
(* that can take a step, the semaphore and the mutex wake their waiters,   *)
(* and an executor call ends (response, transport error, timeout) or the   *)
(* task aborts.                                                            *)
RunNext ==
    \/ PlanRequests
    \/ RunLock
    \/ RunStart
    \/ Acquire
    \/ Spawn
    \/ BuildError
    \/ LoopDone
    \/ Join
    \/ JoinDone
    \/ RunFinish
    \/ RunCompute

UnitNext(u) ==
    \/ ExecuteDone(u)
    \/ UnitAbort(u)
    \/ UnitLock(u)
    \/ UnitRecord(u)
    \/ UnitInc(u)
    \/ UnitDrop(u)

Fairness ==
    /\ WF_vars(RunNext)
    /\ \A u \in Units : WF_vars(UnitNext(u))

LiveSpec == Init /\ [][Next]_vars /\ Fairness

(* ------------------ MetricsCollector called directly ------------------- *)
(* The collector's methods are public and take no lock themselves: the     *)
(* unit tests of metrics.rs call them in any order on a collector of their *)
(* own. `call` keeps the last call and its argument.                       *)
RECURSIVE RecordMany(_, _, _)
RecordMany(c, d, k) ==
    IF k = 0 THEN c ELSE RecordMany(record_success(c, d), d, k - 1)

(* A new collector, or one that already took Preload successes.            *)
Preloaded ==
    {RecordMany(MetricsCollectorNew, d, k) : d \in CallDurations, k \in {0, Preload}}

CollectorInit ==
    /\ concurrency = 0
    /\ total_requests = 0
    /\ dataset = <<>>
    /\ requests_to_make = <<>>
    /\ pc = "direct"
    /\ result = [tag |-> "None"]
    /\ handles = <<>>
    /\ joined = 0
    /\ available = 0
    /\ loop_permit = FALSE
    /\ unit = [u \in Units |-> NoUnit]
    /\ collector \in Preloaded
    /\ lock = Free
    /\ pb = 0
    /\ now = 0
    /\ call = NoCall
    /\ base_url = BaseUrl
    /\ base_request = BaseRequest
    /\ content = <<>>

CallStart ==
    /\ call.n < MaxCalls
    /\ \E t \in Instants(now) :
          /\ now' = t
          /\ collector' = start(collector, t)
    /\ call' = [n |-> call.n + 1, op |-> "start", arg |-> None]
    /\ UNCHANGED <<base_url, base_request, content, concurrency, total_requests, dataset, requests_to_make, pc, result,
                   handles, joined, available, loop_permit, unit, lock, pb>>

CallFinish ==
    /\ call.n < MaxCalls
    /\ \E t \in Instants(now) :
          /\ now' = t
          /\ collector' = finish(collector, t)
    /\ call' = [n |-> call.n + 1, op |-> "finish", arg |-> None]
    /\ UNCHANGED <<base_url, base_request, content, concurrency, total_requests, dataset, requests_to_make, pc, result,
                   handles, joined, available, loop_permit, unit, lock, pb>>

CallRecordSuccess ==
    /\ call.n < MaxCalls
    /\ \E d \in CallDurations :
          /\ collector' = record_success(collector, d)
          /\ call' = [n |-> call.n + 1, op |-> "record_success", arg |-> Some(d)]
    /\ UNCHANGED <<base_url, base_request, content, concurrency, total_requests, dataset, requests_to_make, pc, result,
                   handles, joined, available, loop_permit, unit, lock, pb, now>>

CallRecordFailure ==
    /\ call.n < MaxCalls
    /\ \E d \in CallDurations :
          /\ collector' = record_failure(collector, d)
          /\ call' = [n |-> call.n + 1, op |-> "record_failure", arg |-> Some(d)]
    /\ UNCHANGED <<base_url, base_request, content, concurrency, total_requests, dataset, requests_to_make, pc, result,
                   handles, joined, available, loop_permit, unit, lock, pb, now>>

(* CallComputeMetrics as it would be if the snapshot drained the samples.  *)
CallComputeMetricsDrains ==
    /\ call.n < MaxCalls
    /\ result' = [tag |-> "Ok", metrics |-> compute_metrics(collector)]
    /\ collector' = [collector EXCEPT !.histogram = EmptyBag]
    /\ call' = [n |-> call.n + 1, op |-> "compute_metrics", arg |-> None]
    /\ UNCHANGED <<base_url, base_request, content, concurrency, total_requests, dataset,
                   requests_to_make, pc, handles, joined, available, loop_permit, unit,
                   lock, pb, now>>

CallComputeMetrics ==
    /\ call.n < MaxCalls
    /\ result' = [tag |-> "Ok", metrics |-> compute_metrics(collector)]
    /\ call' = [n |-> call.n + 1, op |-> "compute_metrics", arg |-> None]
    /\ UNCHANGED <<base_url, base_request, content, concurrency, total_requests, dataset, requests_to_make, pc,
                   handles, joined, available, loop_permit, unit, collector, lock,
                   pb, now>>

CollectorNext ==
    \/ CallStart
    \/ CallFinish
    \/ CallRecordSuccess
    \/ CallRecordFailure
    \/ CallComputeMetrics

CollectorSpec == CollectorInit /\ [][CollectorNext]_vars

(* -------------------- build_request called directly -------------------- *)
(* One runner and one dataset entry; the call is PerfRunner::build_request. *)
BaseUrls ==
    {BaseUrl,
     <<"h","t","t","p",":","/","/","x">>,
     <<"h","t","t","p",":","/","/","x","/","/">>}

BaseRequests ==
    {[BaseRequest EXCEPT !.headers = hs, !.body = b, !.timeout = t,
                         !.follow_redirects = f] :
        hs \in {NoHeaders, BaseRequest.headers},
        b \in {None, BaseRequest.body},
        t \in {5, 30},
        f \in BOOLEAN}

BuildPaths ==
    {None,
     Some(<<>>),
     Some(<<"a">>),
     Some(<<"/","a">>),
     Some(<<"h","t","t","p",":","/","/","y">>),
     Some(<<"h","t","t","p","s",":","/","/","y","/">>)}

BuildEntries ==
    {[method |-> m, path |-> p, body |-> b, headers |-> hs] :
        m \in {EntryGet.method, EntryPost.method, EntryBad.method},
        p \in BuildPaths,
        b \in {None, Some(JsonObject("{\"k\":1}")), Some(JsonString("hi"))},
        hs \in {None, EntryPost.headers,
                Some([h \in {"x-a", "X-C"} |-> "entry"])}}

BuildInit ==
    /\ concurrency = 0
    /\ total_requests = 0
    /\ dataset \in {<<e>> : e \in BuildEntries}
    /\ requests_to_make = <<>>
    /\ pc = "build_call"
    /\ result = [tag |-> "None"]
    /\ handles = <<>>
    /\ joined = 0
    /\ available = 0
    /\ loop_permit = FALSE
    /\ unit = [u \in Units |-> NoUnit]
    /\ collector = MetricsCollectorNew
    /\ lock = Free
    /\ pb = 0
    /\ now = 0
    /\ call = NoCall
    /\ base_url \in BaseUrls
    /\ base_request \in BaseRequests
    /\ content = <<>>

(* runner.rs 158-194: Ok(request), or the InvalidMethod of line 170.       *)
CallBuildRequest ==
    /\ pc = "build_call"
    /\ LET built == build_request(dataset[1])
       IN result' = IF built.ok THEN [tag |-> "Ok", request |-> built.request]
                    ELSE [tag |-> "Err", err |-> built.err]
    /\ pc' = "build_returned"
    /\ UNCHANGED <<base_url, base_request, content, call, concurrency, total_requests,
                   dataset, requests_to_make, handles, joined, available, loop_permit,
                   unit, collector, lock, pb, now>>

BuildNext == CallBuildRequest

BuildSpec == BuildInit /\ [][BuildNext]_vars

(* ----------------------- Dataset::from_json ---------------------------- *)
(* The text is a sequence of lines and a line a sequence of JSON values or *)
(* other text: "[]" an empty array, "[{}]" an array of one object, "{}" an *)
(* object, "x" text that is not JSON. A line of no value is blank.         *)
ContentLines ==
    {<<>>, <<"[]">>, <<"[{}]">>, <<"{}">>, <<"x">>, <<"{}", "{}">>}

Contents == SeqsUpTo(ContentLines, MaxLines)

default_method == <<"G","E","T">>

(* `{}` as a DatasetEntry: every field takes its serde default.            *)
DefaultEntry ==
    [method |-> default_method, path |-> None, body |-> None, headers |-> None]

(* The values of the whole text: a line break is JSON white space.         *)
RECURSIVE Flatten(_)
Flatten(lines) ==
    IF lines = <<>> THEN <<>> ELSE Head(lines) \o Flatten(Tail(lines))

(* serde_json::from_str::<Vec<DatasetEntry>>: one array of entries.        *)
ParseArray(text) ==
    IF text = <<"[]">> THEN Some(<<>>)
    ELSE IF text = <<"[{}]">> THEN Some(<<DefaultEntry>>)
    ELSE None

(* serde_json::from_str::<DatasetEntry>: one object; the derived visitor   *)
(* also takes an array as the fields in order, and `[]` leaves all four to *)
(* their defaults.                                                         *)
ParseEntry(text) ==
    IF text = <<"{}">> \/ text = <<"[]">> THEN Some(DefaultEntry) ELSE None

(* dataset.rs 97-108: the lines in order; a blank line is skipped and the  *)
(* first line that is not an entry ends the parse with an error.           *)
RECURSIVE ParseLines(_, _)
ParseLines(lines, entries) ==
    IF lines = <<>>
    THEN IF entries = <<>>
         THEN [tag |-> "Err", err |-> "DatasetError: Empty dataset"]
         ELSE [tag |-> "Ok", entries |-> entries]
    ELSE IF Head(lines) = <<>> THEN ParseLines(Tail(lines), entries)
    ELSE IF ParseEntry(Head(lines)).some
         THEN ParseLines(Tail(lines), Append(entries, ParseEntry(Head(lines)).val))
         ELSE [tag |-> "Err", err |-> "DatasetError: Failed to parse line"]

from_json(lines) ==
    IF ParseArray(Flatten(lines)).some
    THEN [tag |-> "Ok", entries |-> ParseArray(Flatten(lines)).val]
    ELSE IF ParseEntry(Flatten(lines)).some
    THEN [tag |-> "Ok", entries |-> <<ParseEntry(Flatten(lines)).val>>]
    ELSE ParseLines(lines, <<>>)

ParseInit ==
    /\ concurrency = 0
    /\ total_requests = 0
    /\ dataset = <<>>
    /\ requests_to_make = <<>>
    /\ pc = "parse_call"
    /\ result = [tag |-> "None"]
    /\ handles = <<>>
    /\ joined = 0
    /\ available = 0
    /\ loop_permit = FALSE
    /\ unit = [u \in Units |-> NoUnit]
    /\ collector = MetricsCollectorNew
    /\ lock = Free
    /\ pb = 0
    /\ now = 0
    /\ call = NoCall
    /\ base_url = BaseUrl
    /\ base_request = BaseRequest
    /\ content \in Contents

(* dataset.rs 83-111: Ok(Dataset { entries }) or Err(DatasetError).        *)
CallFromJson ==
    /\ pc = "parse_call"
    /\ LET parsed == from_json(content)
       IN IF parsed.tag = "Ok"
          THEN /\ dataset' = parsed.entries
               /\ result' = [tag |-> "Ok"]
          ELSE /\ dataset' = dataset
               /\ result' = [tag |-> "Err", err |-> parsed.err]
    /\ pc' = "parse_returned"
    /\ UNCHANGED <<base_url, base_request, content, call, concurrency, total_requests,
                   requests_to_make, handles, joined, available, loop_permit, unit,
                   collector, lock, pb, now>>

ParseNext == CallFromJson

ParseSpec == ParseInit /\ [][ParseNext]_vars

(* ------------------------- derived quantities -------------------------- *)
Launched == Len(handles)

HoldsPermit(u) == unit[u].st \in {"exec", "lock", "record", "inc", "drop"}

InFlight == Cardinality({u \in Units : HoldsPermit(u)})

Recorded == collector.successful + collector.failed

TypeOK ==
    /\ concurrency \in 0..MaxC
    /\ total_requests \in 0..MaxN
    /\ pc \in {"plan", "lock_start", "start", "loop", "build", "join",
               "lock_finish", "finish", "lock_compute", "compute", "returned"}
    /\ available \in 0..MaxC
    /\ loop_permit \in BOOLEAN
    /\ lock \in {Free, ByRun} \cup {ByUnit(u) : u \in Units}
    /\ pb \in 0..MaxN
    /\ now \in 0..2

Terminated(u) == unit[u].st \in {"none", "finished", "aborted"}

Aborted == Cardinality({u \in Units : unit[u].st = "aborted"})

InvalidItems == {i \in 1..Len(requests_to_make) : ~build_request(requests_to_make[i]).ok}

Returned == pc = "returned"

(* ------------------------------ claims --------------------------------- *)

(* C1: with concurrency C >= 1, at every instant of run the number of      *)
(* units that hold a permit (launched, not yet finished) is at most C.     *)
C1_InFlightAtMostC == concurrency >= 1 => InFlight <= concurrency

(* The pool is exhausted while planned items are still waiting.            *)
C1_Witness ==
    /\ concurrency = MaxC
    /\ InFlight = concurrency
    /\ pc = "loop"
    /\ Launched < Len(requests_to_make)

(* C2: when run completes for a requested total N, the snapshot has        *)
(* successful_requests + failed_requests = N, whatever the dataset length  *)
(* and however each unit ended.                                            *)
C2_SnapshotCountsN ==
    (Returned /\ result.tag = "Ok") =>
        result.metrics.successful_requests + result.metrics.failed_requests
            = total_requests

(* C3: in every state, successful + failed <= units launched so far <= N.  *)
C3_RecordedAtMostLaunched == Recorded <= Launched /\ Launched <= total_requests

(* Mid-run: something recorded, something in flight, something unlaunched. *)
C3_Witness == Recorded >= 1 /\ Recorded < Launched /\ Launched < total_requests

(* C4: for a dataset of length L > 0 the plan has length exactly N; it is  *)
(* entries[0..N) when L >= N, and plan[i] = entries[i mod L] when L < N.   *)
C4_PlanShape ==
    (pc # "plan" /\ Len(dataset) > 0) =>
        /\ Len(requests_to_make) = total_requests
        /\ Len(dataset) >= total_requests =>
              requests_to_make = SubSeq(dataset, 1, total_requests)
        /\ Len(dataset) < total_requests =>
              \A i \in 0..(total_requests - 1) :
                  requests_to_make[i + 1] = dataset[(i % Len(dataset)) + 1]

(* A dataset of two different entries is cycled past its end.              *)
C4_Witness ==
    /\ pc # "plan"
    /\ Len(dataset) = 2
    /\ dataset[1] # dataset[2]
    /\ total_requests = 3
    /\ requests_to_make = <<dataset[1], dataset[2], dataset[1]>>

(* C5: given a dataset with zero entries and N >= 1, run returns an        *)
(* empty-dataset error and issues no request, instead of a snapshot.       *)
C5_EmptyDatasetIsError ==
    (Returned /\ Len(dataset) = 0 /\ total_requests >= 1) =>
        result.tag = "Err" /\ Launched = 0

(* C6: a planned entry with an invalid method is recorded as one Failure;  *)
(* the run is not aborted, every other item is dispatched and run returns  *)
(* a snapshot.                                                             *)
C6_InvalidMethodIsFailure ==
    (Returned /\ InvalidItems # {}) =>
        /\ result.tag = "Ok"
        /\ collector.failed >= Cardinality(InvalidItems)
        /\ Launched = Len(requests_to_make) - Cardinality(InvalidItems)

(* C7: whenever run returns an error, no request was issued in that run.   *)
C7_ErrorBeforeAnyLaunch == (Returned /\ result.tag = "Err") => Launched = 0

(* C8: for a plan of valid methods, whatever the per-request outcomes, run *)
(* returns a snapshot and every planned item was launched and recorded     *)
(* (a unit that aborted is the only one without a record).                 *)
C8_FailuresDoNotAbortRun ==
    (Returned /\ InvalidItems = {}) =>
        /\ result.tag = "Ok"
        /\ Launched = Len(requests_to_make)
        /\ Recorded + Aborted = Len(requests_to_make)

(* A completed run with failures and a success among its outcomes.         *)
C8_Witness ==
    /\ Returned
    /\ InvalidItems = {}
    /\ collector.failed >= 2
    /\ collector.successful >= 1
    /\ Aborted = 0

(* C9: finish() and compute_metrics() are reached only after every         *)
(* launched unit has terminated and released its permit, so that no        *)
(* outcome is recorded after finish().                                     *)
C9_FinishAfterBarrier ==
    (pc \in {"lock_finish", "finish", "lock_compute", "compute"}
        \/ collector.end_time.some \/ result.tag = "Ok") =>
        /\ \A u \in Units : Terminated(u)
        /\ available = concurrency
        /\ Recorded + Aborted = Launched

(* finish() has run after two units or more went through the barrier.      *)
C9_Witness == collector.end_time.some /\ Launched >= 2 /\ Recorded >= 2

(* C10: on every exit path, snapshot or error, run returns only after all  *)
(* the units it launched have ended.                                       *)
C10_NoUnitRunningAtReturn == Returned => \A u \in Units : Terminated(u)

(* The semaphore exists from runner.rs 102 on.                             *)
SemaphoreCreated == pc \notin {"plan", "lock_start", "start"}

HeldByLoop == IF loop_permit THEN 1 ELSE 0

(* Callers that are inside a MetricsCollector method.                      *)
RunInCollector == pc \in {"start", "finish", "compute"}

UnitsInCollector == {u \in Units : unit[u].st = "record"}

(* C11: every permit acquired in the dispatch loop is released exactly     *)
(* once on every exit path: available + held permits = C in every state,   *)
(* and when run returns the pool has C available permits again.            *)
C11_PermitsConserved ==
    SemaphoreCreated =>
        /\ available + InFlight + HeldByLoop = concurrency
        /\ Returned => available = concurrency

(* C12: a unit records Success iff execute returned a response whose       *)
(* status is in 200..299; a non-2xx response and an error are each         *)
(* recorded as Failure; a recording unit changes exactly one counter by 1. *)
C12_OutcomeClassification ==
    [][\A u \in Units :
          (unit[u].st = "record" /\ unit'[u].st = "inc") =>
              IF unit[u].result.val.tag = "Ok"
                    /\ unit[u].result.val.status \in 200..299
              THEN /\ collector'.successful = collector.successful + 1
                   /\ collector'.failed = collector.failed
              ELSE /\ collector'.failed = collector.failed + 1
                   /\ collector'.successful = collector.successful]_vars

(* A unit is about to record a non-2xx response after a success of another.*)
C12_Witness ==
    /\ collector.successful >= 1
    /\ \E u \in Units :
          /\ unit[u].st = "record"
          /\ unit[u].result.val.tag = "Ok"
          /\ unit[u].result.val.status = 404

(* C13: each planned item is attempted exactly once: when run returns,     *)
(* exactly one unit was launched for every planned item.                   *)
C13_EachItemAttemptedOnce ==
    Returned =>
        \A i \in 1..Len(requests_to_make) :
            Cardinality({k \in 1..Len(handles) : handles[k] = i}) = 1

(* C14: units are launched in planned order: the k-th unit launched runs   *)
(* the request of planned item k, and no unit exists for an item whose     *)
(* predecessors are not all launched.                                      *)
C14_LaunchInPlannedOrder ==
    /\ \A k \in 1..Len(handles) :
          /\ handles[k] = k
          /\ unit[k].st # "none"
          /\ unit[k].request = Some(build_request(requests_to_make[k]).request)
    /\ \A u \in Units : u > Len(handles) => unit[u].st = "none"

(* Two units of different entries launched, a third item still waiting.    *)
C14_Witness ==
    /\ Launched = 2
    /\ Len(requests_to_make) = 3
    /\ requests_to_make[1] # requests_to_make[2]
    /\ unit[1].request # unit[2].request

(* C15: at most one caller is inside a collector call at any instant, and  *)
(* each caller inside one holds the collector's mutex.                     *)
C15_CollectorSerialized ==
    /\ Cardinality(UnitsInCollector) + (IF RunInCollector THEN 1 ELSE 0) <= 1
    /\ RunInCollector => lock = ByRun
    /\ \A u \in UnitsInCollector : lock = ByUnit(u)

(* One unit records while another one waits for the mutex.                 *)
C15_Witness ==
    \E u, w \in Units : unit[u].st = "record" /\ unit[w].st = "lock"

(* The whole microseconds of d as the claim means them: not truncated.     *)
WholeMicrosClamped(d) == min_u64(as_micros(d), HistogramHigh)

Computed == call.op = "compute_metrics"

(* C16: for every Duration d passed to record_success or record_failure,   *)
(* also one whose microseconds exceed the histogram's maximum or 64 bits,  *)
(* the value recorded is min(whole microseconds of d, 60_000_000).         *)
C16_RecordsClampedMicros ==
    [][(call'.n # call.n /\ call'.op \in {"record_success", "record_failure"}) =>
          collector'.histogram =
              collector.histogram (+) SetToBag({WholeMicrosClamped(call'.arg.val)})]_vars

(* C17: after any sequence of record_success and record_failure calls the  *)
(* histogram holds successful + failed samples: none is refused or lost.   *)
C17_EverySampleKept ==
    BagCardinality(collector.histogram) = collector.successful + collector.failed

(* A failure above the histogram's maximum was recorded, clamped.          *)
C17_Witness ==
    /\ call.op = "record_failure"
    /\ call.arg.val = Duration70s
    /\ BagIn(HistogramHigh, collector.histogram)
    /\ collector.failed >= 1

(* C18: error_rate_percent is 100 * failed / total when total > 0 and 0    *)
(* when total = 0; it lies in [0, 100], is 0 when failed = 0 and 100 when  *)
(* successful = 0 and total > 0.                                           *)
C18_ErrorRate ==
    Computed =>
        LET rate == result.metrics.error_rate_percent
            total == collector.successful + collector.failed
        IN /\ total > 0 => RatEq(rate, Rat(100 * collector.failed, total))
           /\ total = 0 => RatEq(rate, Rat(0, 1))
           /\ RatLE(Rat(0, 1), rate) /\ RatLE(rate, Rat(100, 1))
           /\ collector.failed = 0 => RatEq(rate, Rat(0, 1))
           /\ (collector.successful = 0 /\ total > 0) => RatEq(rate, Rat(100, 1))

(* A snapshot of a collector with successes and failures.                  *)
C18_Witness ==
    /\ Computed
    /\ collector.successful >= 1
    /\ collector.failed >= 1
    /\ result.metrics.failed_requests = collector.failed

(* C19: total_duration_ms and requests_per_second are 0 when start() or    *)
(* finish() was not called or the measured duration is zero; otherwise     *)
(* requests_per_second = total / duration in seconds. A fresh collector    *)
(* gives total_requests = 0 and all rates 0.                               *)
C19_Throughput ==
    Computed =>
        LET m == result.metrics
            total == collector.successful + collector.failed
            measured == collector.start_time.some /\ collector.end_time.some
                            /\ collector.end_time.val > collector.start_time.val
        IN /\ ~measured =>
                 /\ RatEq(m.total_duration_ms, Rat(0, 1))
                 /\ RatEq(m.requests_per_second, Rat(0, 1))
           /\ measured =>
                 LET ms == collector.end_time.val - collector.start_time.val
                 IN /\ RatEq(m.total_duration_ms, Rat(ms, 1))
                    /\ RatEq(m.requests_per_second, Rat(total * 1000, ms))
           /\ collector = MetricsCollectorNew =>
                 /\ m.total_requests = 0
                 /\ RatEq(m.requests_per_second, Rat(0, 1))
                 /\ RatEq(m.error_rate_percent, Rat(0, 1))

(* A snapshot of a collector that measured a positive duration and holds   *)
(* samples.                                                                *)
C19_Witness ==
    /\ Computed
    /\ collector.start_time.some /\ collector.end_time.some
    /\ collector.end_time.val > collector.start_time.val
    /\ collector.successful + collector.failed > 0

(* C20: for every multiset of recorded durations, the empty one included,  *)
(* min <= p50 <= p95 <= p99 <= max in the snapshot.                        *)
C20_PercentilesOrdered ==
    LET m == compute_metrics(collector)
    IN /\ RatLE(m.latency_min_ms, m.latency_p50_ms)
       /\ RatLE(m.latency_p50_ms, m.latency_p95_ms)
       /\ RatLE(m.latency_p95_ms, m.latency_p99_ms)
       /\ RatLE(m.latency_p99_ms, m.latency_max_ms)

(* A snapshot whose p50, p95 and p99 are three different values.           *)
C20_Witness ==
    /\ Computed
    /\ result.metrics = compute_metrics(collector)
    /\ ~RatEq(result.metrics.latency_p50_ms, result.metrics.latency_p95_ms)
    /\ ~RatEq(result.metrics.latency_p95_ms, result.metrics.latency_p99_ms)

Built == pc = "build_returned" /\ result.tag = "Ok"

(* t is s without its trailing slashes.                                    *)
IsTrimmed(t, s) ==
    /\ Len(t) <= Len(s)
    /\ t = SubSeq(s, 1, Len(t))
    /\ \A k \in (Len(t) + 1)..Len(s) : s[k] = "/"
    /\ (Len(t) > 0 => t[Len(t)] # "/")

(* C23: the URL of the built request is the entry's path itself when it    *)
(* starts with "http://" or "https://"; otherwise the base URL without its *)
(* trailing slash followed by the path; and the base URL unchanged when    *)
(* the entry has no path.                                                  *)
C23_UrlResolution ==
    Built =>
        LET path == dataset[1].path
            url == result.request.url
        IN /\ ~path.some => url = base_url
           /\ (path.some /\ (StartsWith(path.val, HttpPrefix)
                               \/ StartsWith(path.val, HttpsPrefix))) => url = path.val
           /\ (path.some /\ ~StartsWith(path.val, HttpPrefix)
                         /\ ~StartsWith(path.val, HttpsPrefix)) =>
                 \E n \in 0..Len(base_url) :
                    /\ IsTrimmed(SubSeq(base_url, 1, n), base_url)
                    /\ url = SubSeq(base_url, 1, n) \o path.val

(* A relative path was joined to a base URL that ends with a slash.        *)
C23_Witness ==
    /\ Built
    /\ base_url = BaseUrl
    /\ dataset[1].path = Some(<<"/","a">>)
    /\ result.request.url = <<"h","t","t","p",":","/","/","x","/","a">>

(* C24: in the built request, timeout and redirect policy are the base     *)
(* template's; the headers are the base headers and the entry's headers,   *)
(* the entry's value winning for a key of both; the body is the entry's    *)
(* body when it has one and otherwise the base body, or none.              *)
C24_Layering ==
    Built =>
        LET e == dataset[1]
            r == result.request
            eh == IF e.headers.some THEN e.headers.val ELSE NoHeaders
        IN /\ r.timeout = base_request.timeout
           /\ r.follow_redirects = base_request.follow_redirects
           /\ DOMAIN r.headers = (DOMAIN base_request.headers) \cup (DOMAIN eh)
           /\ \A h \in DOMAIN eh : r.headers[h] = eh[h]
           /\ \A h \in (DOMAIN base_request.headers) \ (DOMAIN eh) :
                 r.headers[h] = base_request.headers[h]
           /\ e.body.some => r.body = Some(to_string(e.body.val))
           /\ ~e.body.some => r.body = base_request.body

(* A header of both was overridden, one of the base alone kept, and the    *)
(* entry's body replaced the base body.                                    *)
C24_Witness ==
    /\ Built
    /\ "X-A" \in DOMAIN base_request.headers
    /\ dataset[1].headers.some
    /\ "X-A" \in DOMAIN dataset[1].headers.val
    /\ result.request.headers["X-A"] = "entry"
    /\ result.request.headers["X-B"] = "base"
    /\ base_request.body.some
    /\ dataset[1].body = Some(JsonString("hi"))
    /\ result.request.body = Some("\"hi\"")

(* C21: compute_metrics changes no field of the collector, and two calls   *)
(* with no mutating call in between return identical snapshots.            *)
C21_ComputeIsPure ==
    [][(call'.n # call.n /\ call'.op = "compute_metrics") =>
          /\ collector' = collector
          /\ call.op = "compute_metrics" => result' = result]_vars

(* Two snapshots in a row of a collector that holds samples.               *)
C21_Witness ==
    /\ Computed
    /\ call.n = 2
    /\ collector \in Preloaded
    /\ collector.successful = Preload
    /\ result.metrics = compute_metrics(collector)

(* C22: record_success adds exactly 1 to successful and leaves failed,     *)
(* start_time and end_time alone; record_failure adds exactly 1 to failed  *)
(* and leaves successful, start_time and end_time alone; a snapshot's      *)
(* total_requests is successful_requests + failed_requests.                *)
C22_CountersFrame ==
    [][/\ (call'.n # call.n /\ call'.op = "record_success") =>
             /\ collector'.successful = collector.successful + 1
             /\ collector'.failed = collector.failed
             /\ collector'.start_time = collector.start_time
             /\ collector'.end_time = collector.end_time
       /\ (call'.n # call.n /\ call'.op = "record_failure") =>
             /\ collector'.failed = collector.failed + 1
             /\ collector'.successful = collector.successful
             /\ collector'.start_time = collector.start_time
             /\ collector'.end_time = collector.end_time
       /\ (call'.n # call.n /\ call'.op = "compute_metrics") =>
             /\ result'.metrics.total_requests =
                  result'.metrics.successful_requests + result'.metrics.failed_requests
             /\ result'.metrics.successful_requests = collector.successful
             /\ result'.metrics.failed_requests = collector.failed]_vars

(* A snapshot after start(), a success and a failure.                      *)
C22_Witness ==
    /\ Computed
    /\ collector.start_time.some
    /\ collector.successful = 1
    /\ collector.failed = 1
    /\ result.metrics.total_requests = 2

(* C25: Dataset::from_json never returns a dataset of zero entries: a text *)
(* that yields no entry is rejected with a DatasetError.                   *)
C25_FromJsonNeverEmpty ==
    pc = "parse_returned" =>
        /\ result.tag = "Ok" => Len(dataset) > 0
        /\ (\A k \in 1..Len(content) : content[k] = <<>>) => result.tag = "Err"

NotRecorded == Launched - Recorded

ValidRun ==
    /\ concurrency >= 1
    /\ dataset # <<>>
    /\ \A k \in 1..Len(dataset) : build_request(dataset[k]).ok

(* C26: launching a unit does not wait for it to complete: the launch      *)
(* leaves the new unit executing and hands control back to the loop, so    *)
(* with C >= 2 and N >= 2 item i+1 is launched while item i is in flight   *)
(* and min(C, N) units are in flight at once.                              *)
C26_LaunchDoesNotBlock ==
    [][Launched' = Launched + 1 =>
          /\ unit'[Launched'].st = "exec"
          /\ pc' = "loop"
          /\ InFlight' = InFlight + 1
          /\ InFlight' <= Min(concurrency, Len(requests_to_make))]_vars

(* Items 1 and 2 are both executing and the bound is attained. *)
C26_Witness ==
    /\ concurrency >= 2
    /\ Len(requests_to_make) >= 2
    /\ unit[1].st = "exec"
    /\ unit[2].st = "exec"
    /\ InFlight = Min(concurrency, Len(requests_to_make))

(* C27: for C >= 1 and a non-empty dataset of valid methods, under fair    *)
(* scheduling and with every executor call ending or its unit aborting,    *)
(* every planned item is eventually launched and run returns a snapshot.   *)
C27_RunTerminates ==
    ValidRun ~> (/\ Returned
                 /\ result.tag = "Ok"
                 /\ Launched = total_requests)

(* A run of MaxN items returned its snapshot although a unit aborted and   *)
(* a request failed.                                                       *)
C27_Witness ==
    /\ ValidRun
    /\ Returned
    /\ result.tag = "Ok"
    /\ total_requests = MaxN
    /\ Launched = MaxN
    /\ Aborted >= 1
    /\ collector.failed >= 1

(* C28: the progress count is incremented once per unit, after the unit's  *)
(* outcome is recorded: it is at most successful + failed, at most N, and  *)
(* equals N when a run of N valid items completes.                         *)
C28_ProgressCount ==
    /\ pb <= Recorded
    /\ pb <= total_requests
    /\ (Returned /\ result.tag = "Ok" /\ dataset # <<>>) => pb = total_requests

(* C29: a unit releases its permit only after its outcome is recorded, so  *)
(* absent unit aborts the launched units not yet recorded are at most C.   *)
C29_UnrecordedAtMostC ==
    Aborted = 0 =>
        /\ NotRecorded <= concurrency
        /\ Cardinality({u \in Units : unit[u].st \in {"inc", "drop", "finished"}})
              = Recorded

(* C units are launched and not recorded, after an earlier one was.        *)
C29_Witness ==
    /\ Aborted = 0
    /\ concurrency = MaxC
    /\ Recorded >= 1
    /\ NotRecorded = concurrency

(* C30: with C = 1 the request of item i+1 does not start before the       *)
(* outcome of item i is recorded, so outcomes are recorded in planned      *)
(* order.                                                                  *)
C30_SequentialWhenOne ==
    concurrency = 1 =>
        \A u \in Units :
            unit[u].st \in {"exec", "lock", "record"} => Recorded = u - 1

(* C31: with concurrency 0 and a non-empty plan run() stays at the first   *)
(* permit acquisition: no unit is launched, finish() is not called and     *)
(* run() does not return.                                                  *)
C31_ZeroConcurrencyBlocks ==
    (concurrency = 0 /\ pc # "plan" /\ Len(requests_to_make) > 0) =>
        /\ pc \in {"lock_start", "start", "loop"}
        /\ ~loop_permit
        /\ Launched = 0
        /\ \A u \in Units : unit[u].st = "none"
        /\ ~collector.end_time.some
        /\ result.tag = "None"
        /\ ~Returned

(* run() waits for the first permit of a semaphore that has none.          *)
C31_Witness ==
    /\ concurrency = 0
    /\ Len(requests_to_make) > 0
    /\ pc = "loop"
    /\ SemaphoreCreated
    /\ available = 0
    /\ collector.start_time.some

(* The first planned item whose request cannot be built (1-based).         *)
FirstInvalid == SetMin(InvalidItems)

(* C32: when the first planned item with an invalid method is item k       *)
(* (0-based), run() launches units for the items before it only, never     *)
(* calls finish() or compute_metrics(), and returns InvalidMethod with the *)
(* permit of item k released.                                              *)
C32_FirstInvalidStops ==
    (pc # "plan" /\ InvalidItems # {}) =>
        /\ Launched <= FirstInvalid - 1
        /\ \A u \in Units : u >= FirstInvalid => unit[u].st = "none"
        /\ pc \notin {"lock_finish", "finish", "lock_compute", "compute"}
        /\ ~collector.end_time.some
        /\ result.tag # "Ok"
        /\ Returned =>
              /\ result = [tag |-> "Err", err |-> "InvalidMethod"]
              /\ Launched = FirstInvalid - 1
              /\ ~loop_permit
              /\ available + InFlight = concurrency

(* run() returned InvalidMethod at the second item of three, after having  *)
(* launched the first.                                                     *)
C32_Witness ==
    /\ Returned
    /\ result = [tag |-> "Err", err |-> "InvalidMethod"]
    /\ Len(requests_to_make) = 3
    /\ FirstInvalid = 2
    /\ Launched = 1
    /\ unit[1].st # "none"
    /\ unit[2].st = "none"

(* Steps of run() that call start() and finish() of the collector.         *)
StartCalled == pc = "start" /\ pc' # "start"

FinishCalled == pc = "finish" /\ pc' # "finish"

(* C33: start() is called once, before the first permit is acquired and so *)
(* before any launch or recording; finish() is called at most once; every  *)
(* recording falls between the two.                                        *)
C33_StartOnceFinishOnce ==
    [][/\ StartCalled =>
             /\ ~collector.start_time.some
             /\ collector'.start_time.some
             /\ ~SemaphoreCreated
             /\ ~loop_permit
             /\ Launched = 0
             /\ Recorded = 0
       /\ FinishCalled =>
             /\ collector.start_time.some
             /\ ~collector.end_time.some
             /\ collector'.end_time.some
       /\ (loop_permit' /\ ~loop_permit) => collector.start_time.some
       /\ Launched' # Launched => collector.start_time.some
       /\ Recorded' # Recorded =>
             /\ collector.start_time.some
             /\ ~collector.end_time.some
             /\ collector.start_time.val <= now
       /\ collector.start_time.some => collector'.start_time = collector.start_time
       /\ collector.end_time.some =>
             /\ collector'.end_time = collector.end_time
             /\ Recorded' = Recorded
             /\ collector.end_time.val >= collector.start_time.val
      ]_vars

(* A run that recorded two outcomes between start() and a later finish().  *)
C33_Witness ==
    /\ Returned
    /\ result.tag = "Ok"
    /\ Recorded >= 2
    /\ collector.start_time.some
    /\ collector.end_time.some
    /\ collector.end_time.val > collector.start_time.val

(* dataset.rs 120-130: count entries, each a GET with nothing else set.    *)
simple(count) ==
    [i \in 1..count |->
        [method |-> <<"G", "E", "T">>, path |-> None, body |-> None, headers |-> None]]

(* C34: the method of a dispatched request is that of its dataset entry,   *)
(* not that of the base request; with the dataset simple(N) every request  *)
(* is a GET to the base URL as given.                                      *)
C34_EntryMethodWins ==
    \A u \in 1..Launched :
        LET r == unit[u].request.val
            e == requests_to_make[u]
        IN /\ unit[u].request.some
           /\ r.method = ToUppercase(e.method)
           /\ ToUppercase(e.method) # base_request.method
                 => r.method # base_request.method
           /\ dataset = simple(total_requests) =>
                 /\ r.method = <<"G", "E", "T">>
                 /\ r.url = base_url

(* Both requests of simple(2) went out as GET to the base URL while the    *)
(* base request carries PUT.                                               *)
C34_Witness ==
    /\ total_requests = 2
    /\ dataset = simple(total_requests)
    /\ base_request.method = <<"P", "U", "T">>
    /\ Returned
    /\ result.tag = "Ok"
    /\ Launched = 2
    /\ \A u \in 1..2 :
          /\ unit[u].request.val.method = <<"G", "E", "T">>
          /\ unit[u].request.val.url = base_url

====
